---- MODULE Spec2Model ----
(***************************************************************************)
(* Laghu-Guru pattern extraction of backend/app/core/text/laghu_guru.py:   *)
(* split_aksharas (akshara segmentation), classify_akshara (prosodic       *)
(* weight) and extract_laghu_guru_pattern (validation, segmentation,       *)
(* classification, join), as a state machine that executes one call at a   *)
(* time, one loop iteration per step.                                      *)
(*                                                                         *)
(* A text is a sequence of codepoints.  Each codepoint class of the source *)
(* tables is represented by sample members, written as ASCII names:        *)
(*   "ka"    U+0915  consonant             "a"   U+0905  short vowel       *)
(*   "aa"    U+0906  long vowel            "i"   U+093F  short matra       *)
(*   "ii"    U+0940  long matra            "M"   U+0902  anusvara          *)
(*   "H"     U+094D  halant                "sp"  U+0020  space             *)
(*   "nl"    U+000A  newline               "danda" U+0964 danda            *)
(*   "x"     U+0078  Latin letter (outside the Devanagari block)           *)
(* and, for the literal example verses, the consonants "dha" U+0927,       *)
(* "ra" U+0930, "ma" U+092E, "ta" U+0924, "ssa" U+0937, "ba" U+092C,       *)
(* "sa" U+0938, the long matra "o" U+094B and the visarga U+0903.          *)
(*                                                                         *)
(* Further sections model pada_analyzer.pada_syllable_lengths with the     *)
(* segmenter of sanskrit_prosody.py, and get_connection_pool and           *)
(* save_prediction of db_utils.py.  lookahead holds, for the last step of  *)
(* the scan, the largest distance between an index read and the scan index *)
(* at the time of the read.                                                *)
(***************************************************************************)
EXTENDS Integers, Sequences, FiniteSets, TLC

VARIABLES pc, verse, i, aksharas, akshara, pattern, result, split_called,
          memo, cls_arg, cls_label, report,
          pada_pc, pada_verse, padas, lengths,
          lookahead,
          connection_pool, pool_lock, threads, instances, save

vars == <<pc, verse, i, aksharas, akshara, pattern, result, split_called,
          memo, cls_arg, cls_label, report,
          pada_pc, pada_verse, padas, lengths,
          lookahead,
          connection_pool, pool_lock, threads, instances, save>>

\* the variables of the calls of laghu_guru and text_processing
textVars == <<pc, verse, i, aksharas, akshara, pattern, result, split_called,
              memo, cls_arg, cls_label, report>>

\* the module state of db_utils other than the call of save_prediction
dbVarsButSave == <<connection_pool, pool_lock, threads, instances>>

\* the variables of a call of pada_syllable_lengths
padaVars == <<pada_pc, pada_verse, padas, lengths>>

\* the module state of db_utils and the calls in progress on it
dbVars == <<connection_pool, pool_lock, threads, instances, save>>

-----------------------------------------------------------------------------
(* Devanagari definitions (laghu_guru.py lines 9-23)                       *)

CONSONANTS == {"ka", "dha", "ra", "ma", "ta", "ssa", "ba", "sa"}

SHORT_VOWELS == {"a"}

LONG_VOWELS == {"aa"}

SHORT_MATRAS == {"i"}

LONG_MATRAS == {"ii", "o"}

VOWELS == SHORT_VOWELS \cup LONG_VOWELS

MATRAS == SHORT_MATRAS \cup LONG_MATRAS

GURU_MARKS == {"M", "visarga"}

HALANT == "H"

\* the tables of sanskrit_prosody.py (lines 7-24), on the sampled codepoints
prosody_VOWELS == {"a", "aa"}

VOWEL_SIGNS == {"i", "ii", "o"}

prosody_CONSONANTS == {"ka", "dha", "ra", "ma", "ta", "ssa", "ba", "sa"}

prosody_HALANT == "H"

ANUSVARA == "M"

VISARGA == "visarga"

DANDA == "danda"

\* str.isspace() on the sampled codepoints
Whitespace == {"sp", "nl"}

\* the punctuation literals of line 49 that are not whitespace, sampled
Punctuation == {"danda"}

\* the sampled codepoints in the range U+0900..U+097F of line 27
DevanagariBlock ==
    CONSONANTS \cup VOWELS \cup MATRAS \cup GURU_MARKS \cup {HALANT, "danda"}

-----------------------------------------------------------------------------
(* Bounds and input sets                                                   *)

MaxLen == 4

MaxAksharaLen == 3

MaxDetLen == 2

MaxScanLen == 4

MaxLongWords == 16

MaxPadaLen == 4

MaxSaves == 3

NumThreads == 2

MaxCalls == 2

MaxPadaWords == 9

MaxShortLen == 2

MaxPairLen == 3

Alphabet == {"ka", "a", "aa", "i", "ii", "M", "H", "sp", "danda", "x"}

DetAlphabet == {"ka", "a", "H", "M", "sp"}

PairAlphabet == {"ka", "a", "H", "M", "sp", "nl"}

SeqsUpTo(S, m) == UNION {[1..k -> S] : k \in 0..m}

Verses == SeqsUpTo(Alphabet, MaxLen)

AksharaInputs == SeqsUpTo(Alphabet, MaxAksharaLen)

DetVerses == SeqsUpTo(DetAlphabet, MaxDetLen)

\* the word of scenario 4: dha ra halant ma visarga
Dharmah == <<"dha", "ra", "H", "ma", "visarga">>

\* the verse of the documented response example of routes.py
DharmoRakshati ==
    <<"dha", "ra", "H", "ma", "o", "sp",
      "ra", "ka", "H", "ssa", "ta", "i", "sp",
      "ra", "ka", "H", "ssa", "i", "ta", "visarga">>

ExampleVerses == {Dharmah, DharmoRakshati} \cup SeqsUpTo(Alphabet, MaxShortLen)

PairVerses == SeqsUpTo(PairAlphabet, MaxPairLen)

-----------------------------------------------------------------------------
(* Pure helpers                                                            *)

\* `x in s` for a one-codepoint x and a string s
Contains(s, S) == \E p \in 1..Len(s) : s[p] \in S

\* faulty variant: the range test is missing
is_devanagari_always(text) == TRUE

\* faulty variant: fullmatch instead of search, every codepoint must be in range
is_devanagari_fullmatch(text) ==
    Len(text) > 0 /\ \A p \in 1..Len(text) : text[p] \in DevanagariBlock

\* bool(re.search(<U+0900..U+097F>, text))
is_devanagari(text) == Contains(text, DevanagariBlock)

\* ch.isspace() or ch in {",", "danda", ...}
IsSkipped(ch) == ch \in Whitespace \/ ch \in Punctuation

\* faulty variant: the halant test of lines 135-137 is missing
classify_akshara_no_halant(a) ==
    IF Contains(a, GURU_MARKS) THEN "G"
    ELSE IF Contains(a, LONG_VOWELS) \/ Contains(a, LONG_MATRAS) THEN "G"
    ELSE "L"

\* faulty variant: the short-vowel test is made first
classify_akshara_short_first(a) ==
    IF Contains(a, SHORT_VOWELS) \/ Contains(a, SHORT_MATRAS) THEN "L"
    ELSE IF Contains(a, GURU_MARKS) THEN "G"
    ELSE IF Contains(a, LONG_VOWELS) \/ Contains(a, LONG_MATRAS) THEN "G"
    ELSE IF Contains(a, {HALANT}) THEN "G"
    ELSE "L"

\* faulty variant: the visarga is missing from the marks tested
classify_akshara_no_visarga(a) ==
    IF Contains(a, GURU_MARKS \ {"visarga"}) THEN "G"
    ELSE IF Contains(a, LONG_VOWELS) \/ Contains(a, LONG_MATRAS) THEN "G"
    ELSE IF Contains(a, {HALANT}) THEN "G"
    ELSE "L"

\* classify_akshara: the priority chain of lines 127-148
classify_akshara(a) ==
    IF Contains(a, GURU_MARKS) THEN "G"
    ELSE IF Contains(a, LONG_VOWELS) \/ Contains(a, LONG_MATRAS) THEN "G"
    ELSE IF Contains(a, {HALANT}) THEN "G"
    ELSE IF Contains(a, SHORT_VOWELS) \/ Contains(a, SHORT_MATRAS) THEN "L"
    ELSE IF Contains(a, CONSONANTS) THEN "L"
    ELSE "L"

\* lines 75-90 as a function: the cluster collected from index j of t into a,
\* as <<cluster, index after it>>
RECURSIVE ClusterFrom(_, _, _)
ClusterFrom(t, j, a) ==
    IF j < Len(t) /\ t[j + 1] \in CONSONANTS
    THEN LET a1 == Append(a, t[j + 1])
             j1 == j + 1
         IN  IF j1 < Len(t) /\ t[j1 + 1] = HALANT
             THEN IF j1 + 1 < Len(t) /\ t[j1 + 2] \in CONSONANTS
                  THEN ClusterFrom(t, j1 + 1, Append(a1, t[j1 + 1]))
                  ELSE <<Append(a1, t[j1 + 1]), j1 + 1>>
             ELSE <<a1, j1>>
    ELSE <<a, j>>

\* lines 45-108 as a function: the scan of t from index j with the aksharas
\* aks emitted so far
RECURSIVE ScanFrom(_, _, _)
ScanFrom(t, j, aks) ==
    IF j >= Len(t) THEN aks
    ELSE LET ch == t[j + 1] IN
         IF IsSkipped(ch) THEN ScanFrom(t, j + 1, aks)
         ELSE IF ch = HALANT
         THEN ScanFrom(t, j + 1,
                       IF Len(aks) > 0
                       THEN [aks EXCEPT ![Len(aks)] = Append(@, ch)]
                       ELSE aks)
         ELSE IF ch \in VOWELS
         THEN LET withMark == j + 1 < Len(t) /\ t[j + 2] \in GURU_MARKS
              IN  ScanFrom(t, IF withMark THEN j + 2 ELSE j + 1,
                           Append(aks, IF withMark THEN <<ch, t[j + 2]>>
                                       ELSE <<ch>>))
         ELSE IF ch \in CONSONANTS
         THEN LET c == ClusterFrom(t, j, <<>>)
                  matra == c[2] < Len(t) /\ t[c[2] + 1] \in MATRAS
                  a1 == IF matra THEN Append(c[1], t[c[2] + 1]) ELSE c[1]
                  j1 == IF matra THEN c[2] + 1 ELSE c[2]
                  mark == j1 < Len(t) /\ t[j1 + 1] \in GURU_MARKS
                  a2 == IF mark THEN Append(a1, t[j1 + 1]) ELSE a1
                  j2 == IF mark THEN j1 + 1 ELSE j1
              IN  ScanFrom(t, j2, IF Len(a2) > 0 THEN Append(aks, a2) ELSE aks)
         ELSE ScanFrom(t, j + 1, aks)

\* split_aksharas as a function of its text (lines 30-110)
split_aksharas(text) == ScanFrom(text, 0, <<>>)

\* str.split(): the maximal runs of non-whitespace codepoints, in order
RECURSIVE split(_)
split(s) ==
    IF s = <<>> THEN <<>>
    ELSE IF Head(s) \in Whitespace THEN split(Tail(s))
    ELSE LET stops == {p \in 1..Len(s) : s[p] \in Whitespace}
             e == IF stops = {} THEN Len(s) + 1
                  ELSE CHOOSE p \in stops : \A q \in stops : p <= q
         IN  <<SubSeq(s, 1, e - 1)>> \o split(SubSeq(s, e + 1, Len(s)))

\* str.strip()
RECURSIVE strip(_)
strip(s) ==
    IF s = <<>> THEN s
    ELSE IF Head(s) \in Whitespace THEN strip(Tail(s))
    ELSE IF s[Len(s)] \in Whitespace THEN strip(SubSeq(s, 1, Len(s) - 1))
    ELSE s

\* str.split(sep) for a one-codepoint sep: all segments, empty ones included
RECURSIVE SplitOn(_, _)
SplitOn(s, sep) ==
    LET stops == {p \in 1..Len(s) : s[p] = sep}
    IN  IF stops = {} THEN <<s>>
        ELSE LET e == CHOOSE p \in stops : \A q \in stops : p <= q
             IN  <<SubSeq(s, 1, e - 1)>> \o SplitOn(SubSeq(s, e + 1, Len(s)), sep)

\* " ".join(ws)
RECURSIVE JoinWords(_)
JoinWords(ws) ==
    IF ws = <<>> THEN <<>>
    ELSE IF Len(ws) = 1 THEN ws[1]
    ELSE ws[1] \o <<"sp">> \o JoinWords(Tail(ws))

\* sanskrit_prosody.akshara_split, lines 43-110: the scan of word w from
\* index j with the cluster, the nucleus and the aksharas built so far
RECURSIVE AksharaSplitFrom(_, _, _, _, _)
AksharaSplitFrom(w, j, cluster, nucleus, aks) ==
    IF j >= Len(w)
    THEN IF cluster # <<>> THEN Append(aks, cluster) ELSE aks
    ELSE LET ch == w[j + 1]
             withMark == j + 1 < Len(w) /\ w[j + 2] \in {ANUSVARA, VISARGA}
             nuc == IF withMark THEN <<ch, w[j + 2]>> ELSE <<ch>>
         IN
         IF ch \in prosody_CONSONANTS \/ ch = prosody_HALANT
         THEN IF nucleus # <<>>
              THEN AksharaSplitFrom(w, j + 1, <<ch>>, <<>>,
                                    Append(aks, cluster \o nucleus))
              ELSE AksharaSplitFrom(w, j + 1, Append(cluster, ch), nucleus, aks)
         ELSE IF ch \in prosody_VOWELS
         THEN AksharaSplitFrom(w, IF withMark THEN j + 2 ELSE j + 1, <<>>, <<>>,
                               Append(aks, cluster \o nuc))
         ELSE IF ch \in VOWEL_SIGNS
         THEN AksharaSplitFrom(w, IF withMark THEN j + 2 ELSE j + 1, <<>>, <<>>,
                               Append(aks, cluster \o nuc))
         ELSE IF ch \in {ANUSVARA, VISARGA}
         THEN AksharaSplitFrom(w, j + 1, cluster, nucleus,
                               IF Len(aks) > 0
                               THEN [aks EXCEPT ![Len(aks)] = Append(@, ch)]
                               ELSE aks)
         ELSE AksharaSplitFrom(w, j + 1, cluster, nucleus, aks)

akshara_split(word) == AksharaSplitFrom(word, 0, <<>>, <<>>, <<>>)

\* the loop of syllabify_sanskrit, lines 121-123
RECURSIVE ExtendAll(_)
ExtendAll(tokens) ==
    IF tokens = <<>> THEN <<>>
    ELSE akshara_split(Head(tokens)) \o ExtendAll(Tail(tokens))

\* sanskrit_prosody.syllabify_sanskrit, lines 113-125
syllabify_sanskrit(text) ==
    IF strip(text) = <<>> THEN <<>> ELSE ExtendAll(split(strip(text)))

\* faulty variant: the emptiness test of line 162 is missing
AksharasEmptyNever == FALSE

\* faulty variant: the emptiness test is off by one
AksharasEmptyOffByOne == Len(aksharas) <= 1

\* `not aksharas` of line 162
AksharasEmpty == Len(aksharas) = 0

\* faulty variant: the list survives from call to call (a mutable default or
\* module-level list)
NewAksharasStale == aksharas

\* the list bound to `aksharas` on entry to split_aksharas (line 41)
NewAksharas == <<>>

\* text[j] with Python's 0-based index
At(j) == verse[j + 1]

n == Len(verse)

NoResult == [kind |-> "none", pattern |-> <<>>]

NoMemo == [set |-> FALSE, verse |-> <<>>, outcome |-> NoResult]

\* _connection_pool = None of line 8
None == 0

\* _pool_lock = threading.Lock() of line 7: not held
Unlocked == 0

Threads == 1..NumThreads

\* a thread that is not inside get_connection_pool
IdleThread == [pc |-> "idle", got |-> None, calls |-> 0]

\* no call of save_prediction made yet
NoSave ==
    [pc |-> "idle", conn |-> FALSE, cur |-> FALSE, returns |-> 0,
     rollbacks |-> 0, dberror |-> FALSE, pending |-> "none",
     outcome |-> "none", calls |-> 0, leased |-> 0]

NoReport ==
    [kind |-> "none", laghu_guru_pattern |-> <<>>, pattern_length |-> 0,
     guru_count |-> 0, laghu_count |-> 0, guru_laghu_ratio |-> 0]

-----------------------------------------------------------------------------
(* State after import: no call in progress                                 *)

Init ==
    /\ pc = "idle"
    /\ verse = <<>>
    /\ i = 0
    /\ aksharas = <<>>
    /\ akshara = <<>>
    /\ pattern = <<>>
    /\ result = NoResult
    /\ split_called = FALSE
    /\ memo = NoMemo
    /\ cls_arg = <<>>
    /\ cls_label = "none"
    /\ report = NoReport
    /\ pada_pc = "idle"
    /\ pada_verse = <<>>
    /\ padas = <<>>
    /\ lengths = <<>>
    /\ lookahead = 0
    /\ connection_pool = None
    /\ pool_lock = Unlocked
    /\ threads = [t \in Threads |-> IdleThread]
    /\ instances = 0
    /\ save = NoSave

-----------------------------------------------------------------------------
(* extract_laghu_guru_pattern(verse)                                       *)

\* the call: binds the argument
Call(v) ==
    /\ pc = "idle"
    /\ pc' = "check"
    /\ verse' = v
    /\ split_called' = FALSE
    /\ result' = NoResult
    /\ UNCHANGED <<i, aksharas, akshara, pattern, memo, cls_arg, cls_label,
                   report, padaVars,
                   lookahead, dbVars>>

\* lines 157-158: raise ValueError("Invalid or non-Devanagari input")
ValidateFail ==
    /\ pc = "check"
    /\ (Len(verse) = 0 \/ ~is_devanagari(verse))
    /\ result' = [kind |-> "InvalidInput", pattern |-> <<>>]
    /\ pc' = "done"
    /\ UNCHANGED <<verse, i, aksharas, akshara, pattern, split_called,
                   memo, cls_arg, cls_label, report, padaVars,
                   lookahead, dbVars>>

\* line 157 passes; line 160 calls split_aksharas, lines 41-43
ValidatePass ==
    /\ pc = "check"
    /\ ~(Len(verse) = 0 \/ ~is_devanagari(verse))
    /\ split_called' = TRUE
    /\ aksharas' = NewAksharas
    /\ i' = 0
    /\ pc' = "scan"
    /\ lookahead' = 0
    /\ UNCHANGED <<verse, akshara, pattern, result, memo, cls_arg, cls_label,
                   report, padaVars,
                   dbVars>>

\* faulty variant: `continue' without `i += 1', the index is not advanced
UnknownCharStuck ==
    /\ pc = "scan"
    /\ i < Len(verse)
    /\ ~IsSkipped(verse[i + 1])
    /\ verse[i + 1] # HALANT
    /\ verse[i + 1] \notin VOWELS
    /\ verse[i + 1] \notin CONSONANTS
    /\ akshara' = <<>>
    /\ i' = i
    /\ lookahead' = 0
    /\ UNCHANGED <<pc, verse, aksharas, pattern, result, split_called,
                   memo, cls_arg, cls_label, report, padaVars,
                   dbVars>>

\* faulty variant: `break' instead of `continue', the scan stops at the first
\* separator
SkipSeparatorBreak ==
    /\ pc = "scan"
    /\ i < Len(verse)
    /\ (verse[i + 1] \in Whitespace \/ verse[i + 1] \in Punctuation)
    /\ i' = Len(verse)
    /\ lookahead' = 0
    /\ UNCHANGED <<pc, verse, aksharas, akshara, pattern, result,
                   split_called, memo, cls_arg, cls_label, report, padaVars,
                   dbVars>>

\* lines 48-51: skip whitespace and punctuation
SkipSeparator ==
    /\ pc = "scan"
    /\ i < n
    /\ IsSkipped(At(i))
    /\ i' = i + 1
    /\ lookahead' = 0
    /\ UNCHANGED <<pc, verse, aksharas, akshara, pattern, result,
                   split_called, memo, cls_arg, cls_label, report, padaVars,
                   dbVars>>

\* faulty variant: the halant is appended to the list as an akshara of its own
StandaloneHalantEmits ==
    /\ pc = "scan"
    /\ i < Len(verse)
    /\ ~IsSkipped(verse[i + 1])
    /\ verse[i + 1] = HALANT
    /\ aksharas' = IF Len(aksharas) > 0
                   THEN Append(aksharas, <<verse[i + 1]>>)
                   ELSE aksharas
    /\ i' = i + 1
    /\ lookahead' = 0
    /\ UNCHANGED <<pc, verse, akshara, pattern, result, split_called,
                   memo, cls_arg, cls_label, report, padaVars,
                   dbVars>>

\* faulty variant: aksharas[0] instead of aksharas[-1]
StandaloneHalantFirst ==
    /\ pc = "scan"
    /\ i < Len(verse)
    /\ ~IsSkipped(verse[i + 1])
    /\ verse[i + 1] = HALANT
    /\ aksharas' = IF Len(aksharas) > 0
                   THEN [aksharas EXCEPT ![1] = Append(@, verse[i + 1])]
                   ELSE aksharas
    /\ i' = i + 1
    /\ lookahead' = 0
    /\ UNCHANGED <<pc, verse, akshara, pattern, result, split_called,
                   memo, cls_arg, cls_label, report, padaVars,
                   dbVars>>

\* lines 53-59: a halant met by the outer loop
StandaloneHalant ==
    /\ pc = "scan"
    /\ i < n
    /\ ~IsSkipped(At(i))
    /\ At(i) = HALANT
    /\ aksharas' = IF Len(aksharas) > 0
                   THEN [aksharas EXCEPT ![Len(aksharas)] = Append(@, At(i))]
                   ELSE aksharas
    /\ i' = i + 1
    /\ lookahead' = 0
    /\ UNCHANGED <<pc, verse, akshara, pattern, result, split_called,
                   memo, cls_arg, cls_label, report, padaVars,
                   dbVars>>

\* lines 61-70 and 107-108: an independent vowel forms a syllable
IndependentVowel ==
    /\ pc = "scan"
    /\ i < n
    /\ ~IsSkipped(At(i))
    /\ At(i) # HALANT
    /\ At(i) \in VOWELS
    /\ LET withMark == i + 1 < n /\ At(i + 1) \in GURU_MARKS
           a == IF withMark THEN <<At(i), At(i + 1)>> ELSE <<At(i)>>
       IN  /\ akshara' = a
           /\ i' = IF withMark THEN i + 2 ELSE i + 1
           /\ aksharas' = IF Len(a) > 0 THEN Append(aksharas, a) ELSE aksharas
    /\ lookahead' = 0
    /\ UNCHANGED <<pc, verse, pattern, result, split_called,
                   memo, cls_arg, cls_label, report, padaVars,
                   dbVars>>

\* lines 61, 73: a consonant starts a syllable; the cluster loop is entered
ConsonantStart ==
    /\ pc = "scan"
    /\ i < n
    /\ ~IsSkipped(At(i))
    /\ At(i) # HALANT
    /\ At(i) \notin VOWELS
    /\ At(i) \in CONSONANTS
    /\ akshara' = <<>>
    /\ pc' = "cluster"
    /\ lookahead' = 0
    /\ UNCHANGED <<verse, i, aksharas, pattern, result, split_called,
                   memo, cls_arg, cls_label, report, padaVars,
                   dbVars>>

\* faulty variant: the `else: break' of lines 89-90 is missing, consonants
\* without halant keep joining the cluster
ClusterStepGreedy ==
    /\ pc = "cluster"
    /\ i < Len(verse)
    /\ verse[i + 1] \in CONSONANTS
    /\ LET a1 == Append(akshara, verse[i + 1])
           i1 == i + 1
           halant == i1 < Len(verse) /\ verse[i1 + 1] = HALANT
           conjunct == halant /\ i1 + 1 < Len(verse)
                              /\ verse[i1 + 2] \in CONSONANTS
           more == ~halant /\ i1 < Len(verse) /\ verse[i1 + 1] \in CONSONANTS
       IN  /\ akshara' = IF halant THEN Append(a1, verse[i1 + 1]) ELSE a1
           /\ i' = IF halant THEN i1 + 1 ELSE i1
           /\ pc' = IF conjunct \/ more THEN "cluster" ELSE "attach"
    /\ lookahead' = IF i + 1 < Len(verse) /\ verse[i + 2] = HALANT
                       /\ i + 2 < Len(verse) THEN 1 ELSE 0
    /\ UNCHANGED <<verse, aksharas, pattern, result, split_called,
                   memo, cls_arg, cls_label, report, padaVars,
                   dbVars>>

\* faulty variant: no peek after the halant, the cluster always ends at it
ClusterStepNoPeek ==
    /\ pc = "cluster"
    /\ i < Len(verse)
    /\ verse[i + 1] \in CONSONANTS
    /\ LET a1 == Append(akshara, verse[i + 1])
           halant == i + 1 < Len(verse) /\ verse[i + 2] = HALANT
       IN  /\ akshara' = IF halant THEN Append(a1, verse[i + 2]) ELSE a1
           /\ i' = IF halant THEN i + 2 ELSE i + 1
           /\ pc' = "attach"
    /\ lookahead' = 0
    /\ UNCHANGED <<verse, aksharas, pattern, result, split_called,
                   memo, cls_arg, cls_label, report, padaVars,
                   dbVars>>

\* lines 75-90: one iteration of the cluster loop.  The loop is entered on a
\* consonant and continues only after peeking a consonant, so its condition
\* is true whenever it is tested and the loop ends through `break'.
ClusterStep ==
    /\ pc = "cluster"
    /\ i < n
    /\ At(i) \in CONSONANTS
    /\ LET a1 == Append(akshara, At(i))
           i1 == i + 1
           halant == i1 < n /\ At(i1) = HALANT
           conjunct == halant /\ i1 + 1 < n /\ At(i1 + 1) \in CONSONANTS
       IN  /\ akshara' = IF halant THEN Append(a1, At(i1)) ELSE a1
           /\ i' = IF halant THEN i1 + 1 ELSE i1
           /\ pc' = IF conjunct THEN "cluster" ELSE "attach"
    /\ lookahead' = IF i + 1 < n /\ At(i + 1) = HALANT /\ i + 2 < n THEN 1 ELSE 0
    /\ UNCHANGED <<verse, aksharas, pattern, result, split_called,
                   memo, cls_arg, cls_label, report, padaVars,
                   dbVars>>

\* faulty variant: the mark after the cluster is not attached (lines 97-100
\* missing)
AttachAndEmitNoMark ==
    /\ pc = "attach"
    /\ LET matra == i < Len(verse) /\ verse[i + 1] \in MATRAS
           a1 == IF matra THEN Append(akshara, verse[i + 1]) ELSE akshara
       IN  /\ akshara' = a1
           /\ i' = IF matra THEN i + 1 ELSE i
           /\ aksharas' = IF Len(a1) > 0 THEN Append(aksharas, a1)
                          ELSE aksharas
    /\ pc' = "scan"
    /\ lookahead' = 0
    /\ UNCHANGED <<verse, pattern, result, split_called,
                   memo, cls_arg, cls_label, report, padaVars,
                   dbVars>>

\* lines 92-100 and 107-108: attach matra, attach mark, emit the akshara
AttachAndEmit ==
    /\ pc = "attach"
    /\ LET matra == i < n /\ At(i) \in MATRAS
           a1 == IF matra THEN Append(akshara, At(i)) ELSE akshara
           i1 == IF matra THEN i + 1 ELSE i
           mark == i1 < n /\ At(i1) \in GURU_MARKS
           a2 == IF mark THEN Append(a1, At(i1)) ELSE a1
           i2 == IF mark THEN i1 + 1 ELSE i1
       IN  /\ akshara' = a2
           /\ i' = i2
           /\ aksharas' = IF Len(a2) > 0 THEN Append(aksharas, a2)
                          ELSE aksharas
    /\ pc' = "scan"
    /\ lookahead' = 0
    /\ UNCHANGED <<verse, pattern, result, split_called,
                   memo, cls_arg, cls_label, report, padaVars,
                   dbVars>>

\* lines 102-105: unknown character, skip
UnknownChar ==
    /\ pc = "scan"
    /\ i < n
    /\ ~IsSkipped(At(i))
    /\ At(i) # HALANT
    /\ At(i) \notin VOWELS
    /\ At(i) \notin CONSONANTS
    /\ akshara' = <<>>
    /\ i' = i + 1
    /\ lookahead' = 0
    /\ UNCHANGED <<pc, verse, aksharas, pattern, result, split_called,
                   memo, cls_arg, cls_label, report, padaVars,
                   dbVars>>

\* lines 110, 162-163: split_aksharas returns nothing;
\* raise ValueError("Laghu-Guru pattern extraction failed")
ExtractionFailed ==
    /\ pc = "scan"
    /\ i >= n
    /\ AksharasEmpty
    /\ result' = [kind |-> "ExtractionFailed", pattern |-> <<>>]
    /\ pc' = "done"
    /\ UNCHANGED <<verse, i, aksharas, akshara, pattern, split_called,
                   memo, cls_arg, cls_label, report, padaVars,
                   lookahead, dbVars>>

\* lines 110, 162, 165: split_aksharas returns; the comprehension starts
SplitReturn ==
    /\ pc = "scan"
    /\ i >= n
    /\ ~AksharasEmpty
    /\ pattern' = <<>>
    /\ pc' = "classify"
    /\ UNCHANGED <<verse, i, aksharas, akshara, result, split_called,
                   memo, cls_arg, cls_label, report, padaVars,
                   lookahead, dbVars>>

\* faulty variant: the aksharas are classified last to first
ClassifyStepReversed ==
    /\ pc = "classify"
    /\ Len(pattern) < Len(aksharas)
    /\ pattern' = Append(pattern,
                      classify_akshara(aksharas[Len(aksharas) - Len(pattern)]))
    /\ UNCHANGED <<pc, verse, i, aksharas, akshara, result, split_called,
                   memo, cls_arg, cls_label, report, padaVars,
                   lookahead, dbVars>>

\* line 165: one element of [classify_akshara(a) for a in aksharas]
ClassifyStep ==
    /\ pc = "classify"
    /\ Len(pattern) < Len(aksharas)
    /\ pattern' = Append(pattern, classify_akshara(aksharas[Len(pattern) + 1]))
    /\ UNCHANGED <<pc, verse, i, aksharas, akshara, result, split_called,
                   memo, cls_arg, cls_label, report, padaVars,
                   lookahead, dbVars>>

\* line 167: return "".join(pattern)
JoinReturn ==
    /\ pc = "classify"
    /\ Len(pattern) >= Len(aksharas)
    /\ result' = [kind |-> "pattern", pattern |-> pattern]
    /\ pc' = "done"
    /\ UNCHANGED <<verse, i, aksharas, akshara, pattern, split_called,
                   memo, cls_arg, cls_label, report, padaVars,
                   lookahead, dbVars>>

\* faulty variant: the count starts at the second character
RECURSIVE CountSkippingFirst(_, _)
CountSkippingFirst(p, c) ==
    IF Len(p) <= 1 THEN 0
    ELSE (IF p[Len(p)] = c THEN 1 ELSE 0)
            + CountSkippingFirst(SubSeq(p, 1, Len(p) - 1), c)

\* str.count(c) for a one-character c
RECURSIVE Count(_, _)
Count(p, c) ==
    IF p = <<>> THEN 0
    ELSE (IF Head(p) = c THEN 1 ELSE 0) + Count(Tail(p), c)

\* round(g / l, 3) in thousandths, 0 when l is 0 (text_processing.py line
\* 24); no quotient of counts this small lies halfway between thousandths
RatioMilli(g, l) == IF l = 0 THEN 0 ELSE (2000 * g + l) \div (2 * l)

\* text_processing.analyze_sanskrit_verse, lines 18-32, after the delegated
\* call (line 18, the function aliased at lines 9 and 36) has returned
AnalyzeReport ==
    /\ pc = "done"
    /\ result.kind = "pattern"
    /\ LET lg == result.pattern
           guru_count == Count(lg, "G")
           laghu_count == Count(lg, "L")
       IN  report' = [kind |-> "dict",
                      laghu_guru_pattern |-> lg,
                      pattern_length |-> Len(lg),
                      guru_count |-> guru_count,
                      laghu_count |-> laghu_count,
                      guru_laghu_ratio |-> RatioMilli(guru_count, laghu_count)]
    /\ pc' = "analyzed"
    /\ UNCHANGED <<verse, i, aksharas, akshara, pattern, result, split_called,
                   memo, cls_arg, cls_label, padaVars,
                   lookahead, dbVars>>

\* text_processing.analyze_sanskrit_verse, line 18: the error of the
\* delegated call propagates
AnalyzeRaise ==
    /\ pc = "done"
    /\ result.kind # "pattern"
    /\ report' = [NoReport EXCEPT !.kind = result.kind]
    /\ pc' = "analyzed"
    /\ UNCHANGED <<verse, i, aksharas, akshara, pattern, result, split_called,
                   memo, cls_arg, cls_label, padaVars,
                   lookahead, dbVars>>

\* control is back at the caller, which may keep the outcome for comparison
\* with a later call
Return(keep) ==
    /\ pc = "done"
    /\ pc' = "idle"
    /\ memo' = IF keep THEN [set |-> TRUE, verse |-> verse, outcome |-> result]
               ELSE memo
    /\ UNCHANGED <<verse, i, aksharas, akshara, pattern, result,
                   split_called, cls_arg, cls_label, report, padaVars,
                   lookahead, dbVars>>

\* a direct call of classify_akshara
ClassifyCall(a) ==
    /\ pc = "idle"
    /\ cls_arg' = a
    /\ cls_label' = classify_akshara(a)
    /\ pc' = "classified"
    /\ UNCHANGED <<verse, i, aksharas, akshara, pattern, result,
                   split_called, memo, report, padaVars,
                   lookahead, dbVars>>

Steps ==
    \/ ValidateFail
    \/ ValidatePass
    \/ SkipSeparator
    \/ StandaloneHalant
    \/ IndependentVowel
    \/ ConsonantStart
    \/ ClusterStep
    \/ AttachAndEmit
    \/ UnknownChar
    \/ ExtractionFailed
    \/ SplitReturn
    \/ ClassifyStep
    \/ JoinReturn

\* one call of extract_laghu_guru_pattern on any verse
Next ==
    \/ (pc = "idle" /\ \E v \in Verses : Call(v))
    \/ Steps
    \/ AnalyzeReport
    \/ AnalyzeRaise

Spec == Init /\ [][Next]_vars

\* any number of calls, on any verses; the caller keeps the outcome of some
\* of them
NextDet ==
    \/ (pc = "idle" /\ \E v \in DetVerses : Call(v))
    \/ Steps
    \/ \E keep \in BOOLEAN : Return(keep)

SpecDet == Init /\ [][NextDet]_vars

\* the verses a caller compares with verse v: those with the same words,
\* and v extended by a halant-marked consonant
RelatedVerses(v) ==
    {w \in PairVerses : split(w) = split(v)}
        \cup {v \o <<c, HALANT>> : c \in CONSONANTS}

\* a call on a verse, its outcome kept, then a call on a related verse
NextPair ==
    \/ (pc = "idle" /\ ~memo.set /\ \E v \in PairVerses : Call(v))
    \/ (pc = "idle" /\ memo.set /\ \E v \in RelatedVerses(memo.verse) : Call(v))
    \/ Steps
    \/ (~memo.set /\ Return(TRUE))

SpecPair == Init /\ [][NextPair]_vars

\* one call on a literal example verse or on a short verse
NextExamples ==
    \/ (pc = "idle" /\ \E v \in ExampleVerses : Call(v))
    \/ Steps

SpecExamples == Init /\ [][NextExamples]_vars

ScanAlphabet == {"ka", "a", "i", "M", "H", "sp"}

ScanVerses == SeqsUpTo(ScanAlphabet, MaxScanLen)

\* one call that runs to its end: the interpreter always takes the next step
\* of a call in progress
NextScan ==
    \/ (pc = "idle" /\ \E v \in ScanVerses : Call(v))
    \/ Steps

SpecScan == Init /\ [][NextScan]_vars /\ WF_vars(Steps)

\* calls of classify_akshara on arbitrary strings
NextClassify == pc = "idle" /\ \E a \in AksharaInputs : ClassifyCall(a)

SpecClassify == Init /\ [][NextClassify]_vars

-----------------------------------------------------------------------------
(* pada_analyzer.pada_syllable_lengths(verse)                              *)

PadaAlphabet == {"ka", "a", "i", "M", "H", "sp", "danda"}

PadaWords == {<<"ka">>, <<"ka", "i", "ka">>}

\* the verse of scenario 5: a danda, space, ba danda, space, sa danda
ThreePadas == <<"a", "danda", "sp", "ba", "danda", "sp", "sa", "danda">>

\* verses of words separated by single spaces
WordVerses ==
    {JoinWords(ws) : ws \in UNION {[1..k -> PadaWords] : k \in 1..MaxPadaWords}}

\* verses of up to MaxLongWords one-consonant words
LongVerses == {JoinWords([k \in 1..m |-> <<"ka">>]) : m \in 1..MaxLongWords}

PadaVerses ==
    SeqsUpTo(PadaAlphabet, MaxPadaLen) \cup WordVerses \cup LongVerses
        \cup {ThreePadas}

\* faulty variant: the empty segments are kept
RECURSIVE StripKeepingEmpty(_)
StripKeepingEmpty(segments) ==
    IF segments = <<>> THEN <<>>
    ELSE <<strip(Head(segments))>> \o StripKeepingEmpty(Tail(segments))

\* [p.strip() for p in segments if p.strip()] of line 23
RECURSIVE StripNonEmpty(_)
StripNonEmpty(segments) ==
    IF segments = <<>> THEN <<>>
    ELSE (IF strip(Head(segments)) # <<>> THEN <<strip(Head(segments))>>
          ELSE <<>>) \o StripNonEmpty(Tail(segments))

\* faulty variant: the last, shorter chunk is dropped
RECURSIVE ChunksFullOnly(_, _)
ChunksFullOnly(words, size) ==
    IF Len(words) < size THEN <<>>
    ELSE <<JoinWords(SubSeq(words, 1, size))>>
            \o ChunksFullOnly(SubSeq(words, size + 1, Len(words)), size)

\* [" ".join(words[j:j + size]) for j in range(0, len(words), size)] of
\* lines 31-34
RECURSIVE Chunks(_, _)
Chunks(words, size) ==
    IF words = <<>> THEN <<>>
    ELSE IF Len(words) <= size THEN <<JoinWords(words)>>
    ELSE <<JoinWords(SubSeq(words, 1, size))>>
            \o Chunks(SubSeq(words, size + 1, Len(words)), size)

\* faulty variant: the quotient is rounded up
ChunkSizeCeil(words) == (Len(words) + 3) \div 4

\* faulty variant: one word per chunk whatever the number of words
ChunkSizeOne(words) == 1

\* max(1, len(words) // 4) of line 30
ChunkSize(words) == IF Len(words) \div 4 >= 1 THEN Len(words) \div 4 ELSE 1

\* the call: binds the argument (the local of line 17 is strip(pada_verse))
PadaCall(v) ==
    /\ pc = "idle"
    /\ pada_pc = "idle"
    /\ pada_verse' = v
    /\ pada_pc' = "entered"
    /\ UNCHANGED <<pc, verse, i, aksharas, akshara, pattern, result,
                   split_called, memo, cls_arg, cls_label, report,
                   padas, lengths,
                   lookahead, dbVars>>

\* lines 17-19: nothing is left after strip(), return []
PadaBlank ==
    /\ pada_pc = "entered"
    /\ strip(pada_verse) = <<>>
    /\ lengths' = <<>>
    /\ pada_pc' = "done"
    /\ UNCHANGED <<pc, verse, i, aksharas, akshara, pattern, result,
                   split_called, memo, cls_arg, cls_label, report,
                   pada_verse, padas,
                   lookahead, dbVars>>

\* lines 17, 22-23, 36: split on the danda
PadaSplitDanda ==
    /\ pada_pc = "entered"
    /\ strip(pada_verse) # <<>>
    /\ Contains(strip(pada_verse), {DANDA})
    /\ padas' = StripNonEmpty(SplitOn(strip(pada_verse), DANDA))
    /\ lengths' = <<>>
    /\ pada_pc' = "count"
    /\ UNCHANGED <<pc, verse, i, aksharas, akshara, pattern, result,
                   split_called, memo, cls_arg, cls_label, report,
                   pada_verse,
                   lookahead, dbVars>>

\* lines 17, 26-28, 36: fewer than 4 words, the verse is the only pada
PadaWhole ==
    /\ pada_pc = "entered"
    /\ strip(pada_verse) # <<>>
    /\ ~Contains(strip(pada_verse), {DANDA})
    /\ Len(split(strip(pada_verse))) < 4
    /\ padas' = <<strip(pada_verse)>>
    /\ lengths' = <<>>
    /\ pada_pc' = "count"
    /\ UNCHANGED <<pc, verse, i, aksharas, akshara, pattern, result,
                   split_called, memo, cls_arg, cls_label, report,
                   pada_verse,
                   lookahead, dbVars>>

\* lines 17, 26-34, 36: 4 words or more, chunks of words
PadaChunks ==
    /\ pada_pc = "entered"
    /\ strip(pada_verse) # <<>>
    /\ ~Contains(strip(pada_verse), {DANDA})
    /\ Len(split(strip(pada_verse))) >= 4
    /\ LET words == split(strip(pada_verse))
       IN  padas' = Chunks(words, ChunkSize(words))
    /\ lengths' = <<>>
    /\ pada_pc' = "count"
    /\ UNCHANGED <<pc, verse, i, aksharas, akshara, pattern, result,
                   split_called, memo, cls_arg, cls_label, report,
                   pada_verse,
                   lookahead, dbVars>>

\* lines 37-39: one iteration of the loop over the padas
PadaCount ==
    /\ pada_pc = "count"
    /\ Len(lengths) < Len(padas)
    /\ lengths' = Append(lengths,
                         Len(syllabify_sanskrit(padas[Len(lengths) + 1])))
    /\ UNCHANGED <<pc, verse, i, aksharas, akshara, pattern, result,
                   split_called, memo, cls_arg, cls_label, report,
                   pada_pc, pada_verse, padas,
                   lookahead, dbVars>>

\* line 41: return lengths
PadaReturn ==
    /\ pada_pc = "count"
    /\ Len(lengths) >= Len(padas)
    /\ pada_pc' = "done"
    /\ UNCHANGED <<pc, verse, i, aksharas, akshara, pattern, result,
                   split_called, memo, cls_arg, cls_label, report,
                   pada_verse, padas, lengths,
                   lookahead, dbVars>>

\* one call of pada_syllable_lengths on any verse
NextPada ==
    \/ (pada_pc = "idle" /\ \E v \in PadaVerses : PadaCall(v))
    \/ PadaBlank
    \/ PadaSplitDanda
    \/ PadaWhole
    \/ PadaChunks
    \/ PadaCount
    \/ PadaReturn

SpecPada == Init /\ [][NextPada]_vars

-----------------------------------------------------------------------------
(* db_utils.get_connection_pool(), called from several threads.  A thread   *)
(* record holds the line the thread is at, the value its last call         *)
(* returned (got: None before it returns, RaisedRuntimeError when it        *)
(* raised, otherwise the pool instance) and the number of calls it made.   *)
(* Pool instances are numbered in the order of their construction.         *)

RaisedRuntimeError == -1

\* the thread enters get_connection_pool (line 10)
PoolCall(t) ==
    /\ threads[t].pc = "idle"
    /\ threads[t].calls < MaxCalls
    /\ threads' = [threads EXCEPT ![t] = [pc |-> "line14", got |-> None,
                                          calls |-> @.calls + 1]]
    /\ UNCHANGED <<textVars, padaVars, lookahead, connection_pool, pool_lock,
                   instances, save>>

\* line 14: if _connection_pool is None
PoolCheck(t) ==
    /\ threads[t].pc = "line14"
    /\ threads' = [threads EXCEPT ![t].pc =
                       IF connection_pool = None THEN "line15" ELSE "line26"]
    /\ UNCHANGED <<textVars, padaVars, lookahead, connection_pool, pool_lock,
                   instances, save>>

\* line 15: with _pool_lock, the thread waits until the lock is free
PoolAcquire(t) ==
    /\ threads[t].pc = "line15"
    /\ pool_lock = Unlocked
    /\ pool_lock' = t
    /\ threads' = [threads EXCEPT ![t].pc = "line16"]
    /\ UNCHANGED <<textVars, padaVars, lookahead, connection_pool,
                   instances, save>>

\* faulty variant: the second test is missing, the holder always constructs
PoolRecheckMissing(t) ==
    /\ threads[t].pc = "line16"
    /\ threads' = [threads EXCEPT ![t].pc = "line18"]
    /\ UNCHANGED <<textVars, padaVars, lookahead, connection_pool, pool_lock,
                   instances, save>>

\* line 16: if _connection_pool is None, under the lock
PoolRecheck(t) ==
    /\ threads[t].pc = "line16"
    /\ threads' = [threads EXCEPT ![t].pc =
                       IF connection_pool = None THEN "line18" ELSE "exit"]
    /\ UNCHANGED <<textVars, padaVars, lookahead, connection_pool, pool_lock,
                   instances, save>>

\* lines 18-22: the constructor returns a new pool, which is assigned
PoolConstruct(t) ==
    /\ threads[t].pc = "line18"
    /\ instances' = instances + 1
    /\ connection_pool' = instances + 1
    /\ threads' = [threads EXCEPT ![t].pc = "exit"]
    /\ UNCHANGED <<textVars, padaVars, lookahead, pool_lock, save>>

\* lines 18-24: the constructor raises psycopg2.Error, nothing is assigned,
\* RuntimeError propagates out of the with block
PoolConstructFails(t) ==
    /\ threads[t].pc = "line18"
    /\ threads' = [threads EXCEPT ![t].pc = "exit_raising"]
    /\ UNCHANGED <<textVars, padaVars, lookahead, connection_pool, pool_lock,
                   instances, save>>

\* line 15, the end of the with block: the lock is released, on the normal
\* path and on the raising one
PoolRelease(t) ==
    /\ threads[t].pc \in {"exit", "exit_raising"}
    /\ pool_lock' = Unlocked
    /\ threads' = [threads EXCEPT ![t] =
                       IF @.pc = "exit" THEN [@ EXCEPT !.pc = "line26"]
                       ELSE [@ EXCEPT !.pc = "idle",
                                      !.got = RaisedRuntimeError]]
    /\ UNCHANGED <<textVars, padaVars, lookahead, connection_pool,
                   instances, save>>

\* line 26: return _connection_pool
PoolReturn(t) ==
    /\ threads[t].pc = "line26"
    /\ threads' = [threads EXCEPT ![t] = [@ EXCEPT !.pc = "idle",
                                                   !.got = connection_pool]]
    /\ UNCHANGED <<textVars, padaVars, lookahead, connection_pool, pool_lock,
                   instances, save>>

\* the threads call get_connection_pool, interleaved line by line
NextPool ==
    \E t \in Threads :
        \/ PoolCall(t)
        \/ PoolCheck(t)
        \/ PoolAcquire(t)
        \/ PoolRecheck(t)
        \/ PoolConstruct(t)
        \/ PoolConstructFails(t)
        \/ PoolRelease(t)
        \/ PoolReturn(t)

SpecPool == Init /\ [][NextPool]_vars

-----------------------------------------------------------------------------
(* db_utils.save_prediction(pattern, predicted_chandas, confidence), one   *)
(* thread.  The record save holds the line reached, whether conn and cur   *)
(* are bound, the number of calls of return_connection and of rollback in  *)
(* this call, whether the try body raised psycopg2.Error, the exception in *)
(* flight, the way the call ended, the number of calls made and the        *)
(* number of connections the pool has handed out and not got back.  Each   *)
(* psycopg2 call either returns or raises; cursor.close() of an unnamed    *)
(* cursor does not raise.                                                  *)

\* the exceptions one psycopg2 call of the try body can raise
BodyErrors == {"psycopg2.Error", "Exception"}

\* lines 54-58: the arguments are tested, conn and cur start as None
SaveCall(valid) ==
    /\ save.pc \in {"idle", "done"}
    /\ save.calls < MaxSaves
    /\ save' = IF valid
               THEN [NoSave EXCEPT !.pc = "line61", !.calls = save.calls + 1,
                                   !.leased = save.leased]
               ELSE [NoSave EXCEPT !.pc = "done", !.outcome = "ValueError",
                                   !.calls = save.calls + 1,
                                   !.leased = save.leased]
    /\ UNCHANGED <<textVars, padaVars, lookahead, connection_pool, pool_lock,
                   threads, instances>>

\* line 61, get_connection lines 30-32 and get_connection_pool: the pool is
\* there or is constructed, and getconn() returns a connection
SaveGetConnection ==
    /\ save.pc = "line61"
    /\ connection_pool' = IF connection_pool = None THEN instances + 1
                          ELSE connection_pool
    /\ instances' = IF connection_pool = None THEN instances + 1
                    ELSE instances
    /\ save' = [save EXCEPT !.conn = TRUE, !.pc = "line62",
                            !.leased = @ + 1]
    /\ UNCHANGED <<textVars, padaVars, lookahead, pool_lock, threads>>

\* line 61 with lines 18-24: the pool cannot be constructed; RuntimeError is
\* no psycopg2.Error, so line 73 does not catch it
SavePoolFails ==
    /\ save.pc = "line61"
    /\ connection_pool = None
    /\ save' = [save EXCEPT !.pending = "RuntimeError", !.pc = "finally"]
    /\ UNCHANGED <<textVars, padaVars, lookahead, connection_pool, pool_lock,
                   threads, instances>>

\* line 61 with lines 32-34: getconn() raises, get_connection raises
\* RuntimeError
SaveGetconnFails ==
    /\ save.pc = "line61"
    /\ connection_pool' = IF connection_pool = None THEN instances + 1
                          ELSE connection_pool
    /\ instances' = IF connection_pool = None THEN instances + 1
                    ELSE instances
    /\ save' = [save EXCEPT !.pending = "RuntimeError", !.pc = "finally"]
    /\ UNCHANGED <<textVars, padaVars, lookahead, pool_lock, threads>>

\* line 62: cur = conn.cursor()
SaveCursor ==
    /\ save.pc = "line62"
    /\ save' = [save EXCEPT !.cur = TRUE, !.pc = "line70"]
    /\ UNCHANGED <<textVars, padaVars, lookahead, dbVarsButSave>>

\* lines 65-70: cur.execute(query, ...)
SaveExecute ==
    /\ save.pc = "line70"
    /\ save' = [save EXCEPT !.pc = "line71"]
    /\ UNCHANGED <<textVars, padaVars, lookahead, dbVarsButSave>>

\* line 71: conn.commit(), the try body ends
SaveCommit ==
    /\ save.pc = "line71"
    /\ save' = [save EXCEPT !.pc = "finally"]
    /\ UNCHANGED <<textVars, padaVars, lookahead, dbVarsButSave>>

\* lines 62, 70, 71: the psycopg2 call raises; psycopg2.Error goes to the
\* except clause of line 73, any other exception to the finally clause
SaveBodyRaises(err) ==
    /\ save.pc \in {"line62", "line70", "line71"}
    /\ save' = IF err = "psycopg2.Error"
               THEN [save EXCEPT !.dberror = TRUE, !.pc = "except"]
               ELSE [save EXCEPT !.pending = err, !.pc = "finally"]
    /\ UNCHANGED <<textVars, padaVars, lookahead, dbVarsButSave>>

\* lines 73-76: conn.rollback() returns, RuntimeError is raised
SaveRollback ==
    /\ save.pc = "except"
    /\ save' = [save EXCEPT
                   !.rollbacks = IF save.conn THEN @ + 1 ELSE @,
                   !.pending = "RuntimeError",
                   !.pc = "finally"]
    /\ UNCHANGED <<textVars, padaVars, lookahead, dbVarsButSave>>

\* lines 73-75: conn.rollback() itself raises psycopg2.Error (the connection
\* is closed or broken), line 76 is not reached
SaveRollbackRaises ==
    /\ save.pc = "except"
    /\ save.conn
    /\ save' = [save EXCEPT
                   !.rollbacks = @ + 1,
                   !.pending = "psycopg2.Error",
                   !.pc = "finally"]
    /\ UNCHANGED <<textVars, padaVars, lookahead, dbVarsButSave>>

\* lines 78-82 and return_connection lines 36-42: close the cursor, return
\* the connection to the pool, then the exception in flight propagates or
\* the call returns
SaveFinally ==
    /\ save.pc = "finally"
    /\ save' = [save EXCEPT
                   !.returns = IF save.conn THEN @ + 1 ELSE @,
                   !.leased = IF save.conn THEN @ - 1 ELSE @,
                   !.outcome = IF save.pending = "none" THEN "returned"
                               ELSE save.pending,
                   !.pc = "done"]
    /\ UNCHANGED <<textVars, padaVars, lookahead, dbVarsButSave>>

\* lines 78-82 with lines 41-42: putconn() raises inside
\* return_connection, the exception is printed and not raised
SaveFinallyPutFails ==
    /\ save.pc = "finally"
    /\ save.conn
    /\ save' = [save EXCEPT
                   !.returns = @ + 1,
                   !.outcome = IF save.pending = "none" THEN "returned"
                               ELSE save.pending,
                   !.pc = "done"]
    /\ UNCHANGED <<textVars, padaVars, lookahead, dbVarsButSave>>

\* calls of save_prediction, one after the other
NextSave ==
    \/ \E valid \in BOOLEAN : SaveCall(valid)
    \/ SaveGetConnection
    \/ SavePoolFails
    \/ SaveGetconnFails
    \/ SaveCursor
    \/ SaveExecute
    \/ SaveCommit
    \/ \E err \in BodyErrors : SaveBodyRaises(err)
    \/ SaveRollback
    \/ SaveRollbackRaises
    \/ SaveFinally
    \/ SaveFinallyPutFails

SpecSave == Init /\ [][NextSave]_vars

\* the stepwise scan and the function agree on the segmentation
SplitAgrees ==
    (pc \in {"classify", "done"} /\ split_called) =>
        aksharas = split_aksharas(verse)

TypeOK ==
    /\ pc \in {"idle", "check", "scan", "cluster", "attach", "classify", "done",
              "classified", "analyzed"}
    /\ (pc \in {"scan", "cluster", "attach"} => i \in 0..n)
    /\ split_called \in BOOLEAN
    /\ result.kind \in {"none", "pattern", "InvalidInput", "ExtractionFailed"}
    /\ \A k \in 1..Len(pattern) : pattern[k] \in {"G", "L"}
    /\ pada_pc \in {"idle", "entered", "count", "done"}
    /\ Len(lengths) <= Len(padas)

-----------------------------------------------------------------------------
(* Properties                                                              *)

Returned == pc = "done" /\ result.kind = "pattern"

Raised == pc = "done" /\ result.kind \in {"InvalidInput", "ExtractionFailed"}

\* the verse has a codepoint in U+0900..U+097F
HasDevanagari(v) == \E p \in 1..Len(v) : v[p] \in DevanagariBlock

\* C1: a returned pattern has one character per akshara of the segmentation,
\* the k-th character being the class of the k-th akshara.
C1_PatternFollowsAksharas ==
    Returned =>
        /\ Len(result.pattern) = Len(aksharas)
        /\ \A k \in 1..Len(aksharas) :
               result.pattern[k] = classify_akshara(aksharas[k])

C1_Witness ==
    /\ Returned
    /\ Len(aksharas) >= 3
    /\ result.pattern[1] = "G"
    /\ result.pattern[2] = "L"
    /\ result.pattern[3] = "G"

\* C2: a finished call has either raised, with no pattern, or returned a
\* non-empty string over {G, L}.
C2_AllOrNothing ==
    pc = "done" =>
        \/ Raised /\ result.pattern = <<>>
        \/ /\ Returned
           /\ Len(result.pattern) >= 1
           /\ \A k \in 1..Len(result.pattern) : result.pattern[k] \in {"G", "L"}

C2_Witness ==
    /\ Raised
    /\ result.kind = "ExtractionFailed"
    /\ split_called
    /\ Len(verse) = MaxLen

\* C3: an empty verse, a whitespace-only verse and a verse without a
\* Devanagari codepoint raise the invalid-input error, and split_aksharas
\* has not been entered.
C3_InvalidInputBeforeSplit ==
    /\ pc = "check" => ~split_called
    /\ (pc = "done" /\ (Len(verse) = 0 \/ ~HasDevanagari(verse))) =>
           result.kind = "InvalidInput" /\ ~split_called

C3_Witness ==
    /\ pc = "done"
    /\ result.kind = "InvalidInput"
    /\ ~split_called
    /\ Len(verse) >= 2
    /\ \E p \in 1..Len(verse) : verse[p] \in Whitespace
    /\ \E p \in 1..Len(verse) : verse[p] = "x"

\* C4: the extraction-failed error is raised exactly when the verse passes
\* the precondition and the segmentation is empty.
C4_ExtractionFailedIff ==
    pc = "done" =>
        (result.kind = "ExtractionFailed"
            <=> (Len(verse) > 0 /\ HasDevanagari(verse) /\ Len(aksharas) = 0))

C4_Witness ==
    /\ pc = "done"
    /\ result.kind = "ExtractionFailed"
    /\ \E p \in 1..Len(verse) : verse[p] \in MATRAS
    /\ \E p \in 1..Len(verse) : verse[p] \in GURU_MARKS
    /\ \E p \in 1..Len(verse) : verse[p] = HALANT
    /\ \E p \in 1..Len(verse) : verse[p] = "danda"

\* C5: a verse with a consonant or an independent vowel returns a pattern
\* of length >= 1, whatever surrounds it.
C5_NonEmpty ==
    (pc = "done" /\ Contains(verse, CONSONANTS \cup VOWELS)) =>
        Returned /\ Len(result.pattern) >= 1

C5_Witness ==
    /\ Returned
    /\ Len(result.pattern) = 1
    /\ Len(verse) = MaxLen
    /\ \E p \in 1..Len(verse) : verse[p] = "x"
    /\ \E p \in 1..Len(verse) : verse[p] \in Whitespace

\* a whitespace-delimited word: no whitespace inside
SingleWord(v) == \A p \in 1..Len(v) : v[p] \notin Whitespace

\* C6: a word that already has an akshara yields the same number of aksharas
\* when a halant-marked consonant is added at its end (the outcome of the
\* word is the one the caller kept).
C6_FinalHalantAddsNoAkshara ==
    (/\ pc = "done"
     /\ memo.set
     /\ memo.outcome.kind = "pattern"
     /\ SingleWord(memo.verse)
     /\ \E c \in CONSONANTS : verse = memo.verse \o <<c, HALANT>>) =>
        Returned /\ Len(result.pattern) = Len(memo.outcome.pattern)

\* the akshara ends in a halant-marked consonant: a consonant and a halant
\* with no consonant, vowel or matra after them
ClosedByFinalHalant(a) ==
    \E p \in 2..Len(a) :
        /\ a[p] = HALANT
        /\ a[p - 1] \in CONSONANTS
        /\ (p = Len(a) \/ a[p + 1] \notin CONSONANTS \cup VOWELS \cup MATRAS)

\* C7: in a returned pattern, an akshara closed by a halant-marked consonant
\* is labelled G.
C7_FinalHalantIsGuru ==
    Returned =>
        \A k \in 1..Len(aksharas) :
            ClosedByFinalHalant(aksharas[k]) => result.pattern[k] = "G"

C7_Witness ==
    /\ Returned
    /\ \E k \in 2..Len(aksharas) :
           /\ ClosedByFinalHalant(aksharas[k])
           /\ ~Contains(aksharas[k], GURU_MARKS)
           /\ result.pattern[k] = "G"
           /\ result.pattern[k - 1] = "L"

\* C8: classify_akshara answers G exactly for a string with a mark, a long
\* vowel, a long matra or a halant, and L for every other string.
C8_GuruIff ==
    pc = "classified" =>
        /\ cls_label \in {"G", "L"}
        /\ cls_label = "G" <=>
               \E p \in 1..Len(cls_arg) :
                   cls_arg[p] \in GURU_MARKS \cup LONG_VOWELS
                                  \cup LONG_MATRAS \cup {HALANT}

C8_Witness ==
    /\ pc = "classified"
    /\ cls_label = "G"
    /\ \E p \in 1..Len(cls_arg) : cls_arg[p] \in SHORT_VOWELS
    /\ \E p \in 1..Len(cls_arg) : cls_arg[p] \in GURU_MARKS
    /\ \A p \in 1..Len(cls_arg) : cls_arg[p] \notin LONG_VOWELS \cup LONG_MATRAS

\* C9: a call on a verse whose outcome the caller kept from an earlier call
\* has the same outcome, whatever calls were made before and in between.
C9_Deterministic ==
    (pc = "done" /\ memo.set /\ memo.verse = verse) => result = memo.outcome

C9_Witness ==
    /\ Returned
    /\ memo.set
    /\ memo.verse = verse
    /\ result = memo.outcome
    /\ Len(result.pattern) >= 2

\* C10: two verses with the same words in the same order, differing only in
\* the whitespace between and around the words, have the same outcome.
C10_WhitespaceInsensitive ==
    (pc = "done" /\ memo.set /\ split(memo.verse) = split(verse)) =>
        result = memo.outcome

C10_Witness ==
    /\ Returned
    /\ memo.set
    /\ memo.verse # verse
    /\ split(memo.verse) = split(verse)
    /\ Len(split(verse)) >= 2
    /\ result = memo.outcome

\* C11: the word dha-ra-halant-ma-visarga yields exactly the two aksharas
\* dha and ra-halant-ma-visarga; the second holds the conjunct with its
\* halant and the visarga and is labelled G; the pattern has length 2.
C11_DharmahTwoAksharas ==
    (pc = "done" /\ verse = Dharmah) =>
        /\ Returned
        /\ aksharas = << <<"dha">>, <<"ra", "H", "ma", "visarga">> >>
        /\ Len(result.pattern) = 2
        /\ result.pattern[2] = "G"

C11_Witness ==
    /\ Returned
    /\ verse = Dharmah
    /\ Len(aksharas) = 2
    /\ Contains(aksharas[2], {HALANT})
    /\ Contains(aksharas[2], {"visarga"})

RECURSIVE ConjunctsFrom(_, _)
ConjunctsFrom(s, p) ==
    IF p + 2 > Len(s) THEN 0
    ELSE (IF s[p] \in CONSONANTS /\ s[p + 1] = HALANT /\ s[p + 2] \in CONSONANTS
          THEN 1 ELSE 0) + ConjunctsFrom(s, p + 1)

Conjuncts(s) == ConjunctsFrom(s, 1)

RECURSIVE ConjunctsInside(_)
ConjunctsInside(aks) ==
    IF aks = <<>> THEN 0
    ELSE Conjuncts(Head(aks)) + ConjunctsInside(Tail(aks))

\* C18: a halant between two consonants introduces no syllable boundary:
\* every consonant-halant-consonant of the text lies inside one akshara
\* (while the scan runs, the open cluster counts as the akshara in the making).
C18_ConjunctStaysTogether ==
    /\ (pc \in {"classify", "done"} /\ split_called) =>
           ConjunctsInside(aksharas) = Conjuncts(verse)
    /\ pc = "scan" =>
           ConjunctsInside(aksharas) = Conjuncts(SubSeq(verse, 1, i))
    /\ pc = "attach" =>
           ConjunctsInside(Append(aksharas, akshara))
               = Conjuncts(SubSeq(verse, 1, i))

C18_Witness ==
    /\ Returned
    /\ Conjuncts(verse) >= 1
    /\ Len(aksharas) >= 2
    /\ \E k \in 1..Len(aksharas) : Conjuncts(aksharas[k]) >= 1

\* C17: analyze_sanskrit_verse reports the pattern of the delegated call,
\* its length as pattern_length, and guru and laghu counts that add up to
\* that length; an error of the delegated call is the error of the wrapper.
C17_AnalyzeDelegates ==
    pc = "analyzed" =>
        IF result.kind = "pattern"
        THEN /\ report.kind = "dict"
             /\ report.laghu_guru_pattern = result.pattern
             /\ report.pattern_length = Len(result.pattern)
             /\ report.guru_count + report.laghu_count = report.pattern_length
        ELSE /\ report.kind = result.kind
             /\ report.laghu_guru_pattern = <<>>

C17_Witness ==
    /\ pc = "analyzed"
    /\ report.kind = "dict"
    /\ report.guru_count >= 2
    /\ report.laghu_count >= 2

\* C19: an independent vowel that immediately follows a consonant is
\* appended to the cluster of that consonant: the two are in one akshara.
C19_VowelClosesCluster ==
    Returned =>
        \A p \in 1..(Len(verse) - 1) :
            (verse[p] \in CONSONANTS /\ verse[p + 1] \in VOWELS) =>
                \E k \in 1..Len(aksharas) :
                    \E q \in 1..(Len(aksharas[k]) - 1) :
                        /\ aksharas[k][q] = verse[p]
                        /\ aksharas[k][q + 1] = verse[p + 1]

\* C20: a mark at the end of the text that follows a whitespace, so that no
\* lookahead consumes it, is appended to the akshara emitted last, which is
\* then labelled G.
C20_StandaloneMarkAttaches ==
    (/\ Returned
     /\ Len(verse) >= 3
     /\ verse[Len(verse)] \in GURU_MARKS
     /\ verse[Len(verse) - 1] \in Whitespace
     /\ split_aksharas(SubSeq(verse, 1, Len(verse) - 2)) # <<>>) =>
        /\ aksharas # <<>>
        /\ aksharas[Len(aksharas)][Len(aksharas[Len(aksharas)])]
               = verse[Len(verse)]
        /\ result.pattern[Len(result.pattern)] = "G"

\* a consonant with no matra and no halant on it, followed by a consonant
BareBeforeConsonant(v, p) ==
    /\ p < Len(v)
    /\ v[p] \in CONSONANTS
    /\ v[p + 1] \in CONSONANTS

RECURSIVE PerWord(_)
PerWord(ws) ==
    IF ws = <<>> THEN <<>>
    ELSE split_aksharas(Head(ws)) \o PerWord(Tail(ws))

\* C22: the segmentation of a verse is the concatenation, in word order, of
\* the segmentations of its whitespace-delimited words.
C22_SegmentationPerWord ==
    Returned => aksharas = PerWord(split(verse))

\* C23: during the scan the output list changes only by appending: every
\* akshara already emitted is left as it is by every later step.
C23_EmittedAksharaImmutable ==
    [][(pc \in {"scan", "cluster", "attach"})
           => (Len(aksharas) <= Len(aksharas')
               /\ SubSeq(aksharas', 1, Len(aksharas)) = aksharas)]_vars

\* the scan of split_aksharas is running
Scanning == pc \in {"scan", "cluster", "attach"}

\* C24: the scan index never decreases and never passes the end of the text,
\* it grows on every iteration of the outer loop and of the cluster loop
\* (the cluster collected is the text consumed since the iteration began),
\* no read is further than one codepoint past the index, the index is at the
\* end of the text when the scan is over, and every call comes to its end.
C24_SingleScanTerminates ==
    /\ [](Scanning => (i \in 0..n /\ lookahead \in 0..1))
    /\ []((pc \in {"cluster", "attach"}) =>
             (/\ Len(akshara) <= i
              /\ akshara = SubSeq(verse, i - Len(akshara) + 1, i)
              /\ (pc = "attach" => Len(akshara) >= 1)))
    /\ []((pc \in {"classify", "done"} /\ split_called) => i = n)
    /\ [][/\ (Scanning /\ Scanning') => (i' >= i /\ i' <= i + 2)
          /\ (pc = "scan" /\ pc' = "scan") => i' > i
          /\ (pc = "scan" /\ pc' = "cluster") => i' = i
          /\ (pc = "cluster") => i' > i]_vars
    /\ (pc = "check") ~> (pc = "done")

C24_Witness ==
    /\ Returned
    /\ n >= 4
    /\ i = n
    /\ Conjuncts(verse) >= 1
    /\ Len(aksharas) >= 2

\* the split of the text is over
SplitOver == pc \in {"classify", "done"} /\ split_called

\* the number of positions from p on that hold an independent vowel, or a
\* consonant not preceded by the two codepoints consonant, halant
RECURSIVE AksharaStarts(_, _)
AksharaStarts(v, p) ==
    IF p > Len(v) THEN 0
    ELSE (IF \/ v[p] \in VOWELS
             \/ /\ v[p] \in CONSONANTS
                /\ ~(p >= 3 /\ v[p - 1] = HALANT /\ v[p - 2] \in CONSONANTS)
          THEN 1 ELSE 0) + AksharaStarts(v, p + 1)

RECURSIVE Flatten(_)
Flatten(aks) ==
    IF aks = <<>> THEN <<>> ELSE Head(aks) \o Flatten(Tail(aks))

\* f is v with some matras, marks, halants, separators and unclassified
\* codepoints left out, and nothing else
RECURSIVE KeepsLetters(_, _)
KeepsLetters(f, v) ==
    IF v = <<>> THEN f = <<>>
    ELSE IF Head(v) \in CONSONANTS \cup VOWELS
    THEN f # <<>> /\ Head(f) = Head(v) /\ KeepsLetters(Tail(f), Tail(v))
    ELSE IF Head(v) \in MATRAS \cup GURU_MARKS \cup {HALANT}
    THEN \/ (f # <<>> /\ Head(f) = Head(v) /\ KeepsLetters(Tail(f), Tail(v)))
         \/ KeepsLetters(f, Tail(v))
    ELSE KeepsLetters(f, Tail(v))

\* C26: the aksharas, concatenated, are the codepoints of the text in their
\* order with every consonant and independent vowel kept once, and without
\* any separator or unclassified codepoint.
C26_AksharasKeepLetters ==
    SplitOver =>
        /\ KeepsLetters(Flatten(aksharas), verse)
        /\ \A p \in 1..Len(Flatten(aksharas)) :
               Flatten(aksharas)[p] \in
                   CONSONANTS \cup VOWELS \cup MATRAS \cup GURU_MARKS \cup {HALANT}

C26_Witness ==
    /\ SplitOver
    /\ Len(aksharas) >= 2
    /\ Contains(verse, {HALANT})
    /\ Len(Flatten(aksharas)) < Len(verse)
    /\ Len(Flatten(aksharas)) >= 3

-----------------------------------------------------------------------------
(* Claims about pada_syllable_lengths                                      *)

PadaReturned == pada_pc = "done"

\* C12: on the verse a danda, space, ba danda, space, sa danda the padas
\* are the three segments a, ba and sa, and the list returned is [1, 1, 1].
C12_ThreePadas ==
    (PadaReturned /\ pada_verse = ThreePadas) =>
        /\ padas = << <<"a">>, <<"ba">>, <<"sa">> >>
        /\ lengths = <<1, 1, 1>>

C12_Witness ==
    /\ PadaReturned
    /\ pada_verse = ThreePadas
    /\ Len(lengths) = 3

\* the codepoints of s from the first to the last that is no whitespace
Trimmed(s) ==
    LET inner == {p \in 1..Len(s) : s[p] \notin Whitespace}
    IN  IF inner = {} THEN <<>>
        ELSE SubSeq(s, CHOOSE p \in inner : \A q \in inner : p <= q,
                       CHOOSE p \in inner : \A q \in inner : p >= q)

\* the reference partition on the danda: a scan from the left that closes
\* the segment cur at each danda and at the end, keeping the trimmed segment
\* when something is left of it
RECURSIVE RefDandaFrom(_, _, _)
RefDandaFrom(s, p, cur) ==
    LET kept == IF Trimmed(cur) = <<>> THEN <<>> ELSE <<Trimmed(cur)>>
    IN  IF p > Len(s) THEN kept
        ELSE IF s[p] = DANDA THEN kept \o RefDandaFrom(s, p + 1, <<>>)
        ELSE RefDandaFrom(s, p + 1, Append(cur, s[p]))

\* the reference partition in chunks: chunk k holds the words
\* (k-1)*size+1 .. min(k*size, n), of which there are ceil(n / size)
RefChunks(words) ==
    LET nw == Len(words)
        size == IF nw \div 4 > 1 THEN nw \div 4 ELSE 1
        count == (nw + size - 1) \div size
    IN  [k \in 1..count |->
            JoinWords(SubSeq(words, (k - 1) * size + 1,
                             IF k * size < nw THEN k * size ELSE nw))]

RefPadas(v) ==
    IF \E p \in 1..Len(v) : v[p] = DANDA THEN RefDandaFrom(v, 1, <<>>)
    ELSE IF Len(split(v)) < 4 THEN <<Trimmed(v)>>
    ELSE RefChunks(split(v))

\* C14: the padas are those of the reference algorithm, the list returned
\* has one count per pada in pada order, and it is empty for a verse that is
\* empty or whitespace only.
C14_ReferencePartition ==
    PadaReturned =>
        IF Trimmed(pada_verse) = <<>> THEN lengths = <<>>
        ELSE /\ padas = RefPadas(pada_verse)
             /\ Len(lengths) = Len(padas)
             /\ \A k \in 1..Len(padas) :
                    lengths[k] = Len(syllabify_sanskrit(padas[k]))

\* a verse of 8 words or more: chunks of 2 words or more
C14_Witness ==
    /\ PadaReturned
    /\ ~Contains(pada_verse, {DANDA})
    /\ Len(split(pada_verse)) >= 8
    /\ Len(padas) = 4
    /\ Len(lengths) = 4

\* the codepoints of s that are neither danda nor whitespace
RECURSIVE Content(_)
Content(s) ==
    IF s = <<>> THEN <<>>
    ELSE (IF Head(s) \in Whitespace \cup {DANDA} THEN <<>> ELSE <<Head(s)>>)
            \o Content(Tail(s))

RECURSIVE ContentOfAll(_)
ContentOfAll(ps) ==
    IF ps = <<>> THEN <<>>
    ELSE Content(Head(ps)) \o ContentOfAll(Tail(ps))

\* C15: the padas in order, separators left out, are the codepoints of the
\* verse, separators left out.
C15_PadasPartitionContent ==
    (PadaReturned /\ Trimmed(pada_verse) # <<>>) =>
        ContentOfAll(padas) = Content(pada_verse)

\* a verse of 9 words: the last chunk is shorter than the others
C15_Witness ==
    /\ PadaReturned
    /\ ~Contains(pada_verse, {DANDA})
    /\ Len(split(pada_verse)) = 9
    /\ Len(padas) = 5
    /\ ContentOfAll(padas) # <<>>

\* C16: the count of each pada is the number of aksharas split_aksharas
\* yields for the text of the pada.
C16_CountsUseSplitAksharas ==
    PadaReturned =>
        \A k \in 1..Len(lengths) :
            lengths[k] = Len(split_aksharas(padas[k]))

\* C27: in the word-chunk fallback with nw >= 4 words the number of padas is
\* ceil(nw / (nw div 4)), it lies in 4..7, it is 4 exactly when nw is a
\* multiple of 4, and every pada but the last holds nw div 4 words.
C27_ChunkCount ==
    (/\ PadaReturned
     /\ ~Contains(pada_verse, {DANDA})
     /\ Len(split(pada_verse)) >= 4) =>
        LET nw == Len(split(pada_verse))
            q == nw \div 4
        IN  /\ Len(padas) = (nw + q - 1) \div q
            /\ Len(padas) \in 4..7
            /\ (Len(padas) = 4) <=> (nw % 4 = 0)
            /\ \A k \in 1..(Len(padas) - 1) : Len(split(padas[k])) = q

\* 15 words: 5 padas of 3 words
C27_Witness ==
    /\ PadaReturned
    /\ ~Contains(pada_verse, {DANDA})
    /\ Len(split(pada_verse)) = 15
    /\ Len(padas) = 5

RECURSIVE Sum(_)
Sum(ns) == IF ns = <<>> THEN 0 ELSE Head(ns) + Sum(Tail(ns))

\* C28: the counts returned add up to the number of aksharas
\* syllabify_sanskrit yields for the whole verse.
C28_CountsSumToWhole ==
    PadaReturned => Sum(lengths) = Len(syllabify_sanskrit(pada_verse))

-----------------------------------------------------------------------------
(* Claims about db_utils                                                   *)

InLockedSection(t) ==
    threads[t].pc \in {"line16", "line18", "exit", "exit_raising"}

\* C29: at most one pool is ever constructed, every call that returns gives
\* that pool, a pool once set is never replaced or reset, a failed
\* construction leaves the pool unset, and only the thread inside the with
\* block holds the lock (a thread that raised has released it).
C29_PoolConstructedOnce ==
    /\ [](instances <= 1)
    /\ [](connection_pool \in {None, 1})
    /\ [](\A t \in Threads :
             (threads[t].pc = "idle" /\ threads[t].got \notin {None, RaisedRuntimeError})
                 => (threads[t].got = 1 /\ connection_pool = 1))
    /\ [](\A t \in Threads : (pool_lock = t) <=> InLockedSection(t))
    /\ [][connection_pool # None => connection_pool' = connection_pool]_vars
    /\ [][\A t \in Threads :
             (threads[t].pc = "line18" /\ threads'[t].pc = "exit_raising")
                 => (connection_pool = None /\ connection_pool' = None)]_vars

\* a call raised, a later call constructed the pool, and two threads got it
C29_Witness ==
    /\ instances = 1
    /\ pool_lock = Unlocked
    /\ \E t \in Threads :
           /\ threads[t].calls = 2
           /\ threads[t].got = 1
    /\ \E t \in Threads : threads[t].got = RaisedRuntimeError

\* C30: when save_prediction ends, return_connection was called once if a
\* connection was obtained and not at all otherwise, and a database error in
\* the try body was followed by a rollback and ends as RuntimeError.
C30_ConnectionReturnedOnce ==
    save.pc = "done" =>
        /\ save.conn => save.returns = 1
        /\ ~save.conn => save.returns = 0
        /\ save.dberror => (save.rollbacks = 1 /\ save.outcome = "RuntimeError")

====
